---------------------------- MODULE Spec2Model ----------------------------
(***************************************************************************)
(* A model of the ESP32 square-wave MIDI synthesizer:                      *)
(*   - the voice table of Synthesizer (Synthesizer.h / Synthesizer.cpp),   *)
(*     with startNote and stopNote as they run under voicesMutex, and the  *)
(*     audio task that advances, sums and mixes the voices per sample;     *)
(*   - the playback session of MidiPlayer (MidiPlayer.h and its            *)
(*     implementation, src/unnamed/part_000): loadSong, start, stop,       *)
(*     update, reading six-byte events from flash and a 32-bit millis()    *)
(*     clock.                                                              *)
(* The initial state is the one setup() leaves after synth.init() and      *)
(* player.init(synth): the synthesizer pointer of the player is set there  *)
(* and never changes, so processCurrentEvent always has a synthesizer.     *)
(*                                                                         *)
(* Five specifications share the state: Spec drives the player through     *)
(* loadSong, start, stop and update while millis() advances; SpecPool      *)
(* drives the synthesizer directly through startNote and stopNote;         *)
(* SpecAudio runs the audio task (audioTaskRunner) next to a thread that   *)
(* calls startNote and stopNote, both taking voicesMutex, and              *)
(* SpecAudioFair does so under fair scheduling; SpecLive is the sketch's   *)
(* loop(), update() polled fairly while the clock advances.                *)
(*                                                                         *)
(* Floats are kept exact: frequencies in millihertz, millis_per_tick as a  *)
(* fraction.  roundf is RoundDiv; for the songs and notes explored no      *)
(* product lies within float error of a half, so both round alike.         *)
(***************************************************************************)
EXTENDS Integers, Sequences, FiniteSets, TLC

VARIABLES
    voices,                 \* Synthesizer::voices[SYNTH_MAX_VOICES]
    current_song_data_ptr,  \* MidiPlayer: flash region of the song, NULL = 0
    current_event_count,    \* MidiPlayer: uint16_t
    current_bpm,            \* MidiPlayer: float, whole numbers here
    millis_per_tick,        \* MidiPlayer: float, kept as a fraction num/den
    is_playing,             \* MidiPlayer: bool
    current_event_index,    \* MidiPlayer: uint16_t
    next_event_time_ms,     \* MidiPlayer: unsigned long, <<high half, low half>>
    now,                    \* millis(): unsigned long, <<high half, low half>>
    last,                   \* history: the last call, what it returned, the events
                            \*          it read from flash, and for an update that
                            \*          fired the millis() it read
    dispatched,             \* history: event indices sent to the synthesizer since start()
    waited,                 \* history: milliseconds gone by since the deadline was last set
    strayFlash,             \* the byte a read outside the song arrays comes back with
    failedLoads,            \* history: loadSong calls that returned false so far
    elapsed,                \* history: clock advances so far
    calls,                  \* history: direct synthesizer calls other than a new key
    maxNote,                \* history: highest note number handed to startNote so far
    voicesMutex,            \* Synthesizer::voicesMutex: "free" or the thread holding it
    pcControl,              \* where the calling thread is inside startNote/stopNote
    request,                \* the startNote/stopNote call the calling thread is in
    pcRender,               \* where the audio task is inside audioTaskRunner
    renderIndex,            \* audioTaskRunner: the loop variable i
    summedSample_raw,       \* audioTaskRunner: int32_t
    activeVoiceCount,       \* audioTaskRunner: int
    finalSample             \* audioTaskRunner: int16_t

audioVars == <<voicesMutex, pcControl, request, pcRender, renderIndex,
               summedSample_raw, activeVoiceCount, finalSample>>

vars == <<voices, current_song_data_ptr, current_event_count, current_bpm,
          millis_per_tick, is_playing, current_event_index, next_event_time_ms,
          now, last, dispatched, waited, strayFlash, failedLoads, elapsed, calls,
          maxNote,
          voicesMutex, pcControl, request, pcRender, renderIndex,
          summedSample_raw, activeVoiceCount, finalSample>>

playerVars == <<current_song_data_ptr, current_event_count, current_bpm,
                millis_per_tick, is_playing, current_event_index,
                next_event_time_ms>>

-----------------------------------------------------------------------------
(* Program constants *)

SYNTH_SAMPLE_RATE == 44100
SYNTH_MAX_VOICES == 8
SYNTH_MAX_NOTE_AMPLITUDE == 16000
SYNTH_MAX_OUTPUT_AMPLITUDE == 32767
SYNTH_MIN_OUTPUT_AMPLITUDE == -32768
SYNTH_SILENCE_AMPLITUDE == 0
BYTES_PER_EVENT == 6
TICKS_PER_QUARTER_NOTE == 96

-----------------------------------------------------------------------------
(* Bounds of the exploration *)

\* The valid notes a caller may ask for are 60 .. 59 + NumNotes: one more
\* than there are voices.
NumNotes == 9
\* Direct synthesizer calls explored besides the first note-on of each new key.
MaxCalls == 2
\* Clock advances explored, each by one of ClockSteps milliseconds.
MaxTicks == 6
ClockSteps == {250}
\* Failed loadSong calls counted.
MaxFailedLoads == 2
\* startNote/stopNote calls explored while the audio task runs under fair
\* scheduling.
MaxFairCalls == 2
\* Bytes that may lie outside the song arrays in flash.
StrayBytes == {0, 2}
\* startNote/stopNote calls explored while the audio task runs.
MaxAudioCalls == 3

ValidNotes == 60 .. (59 + NumNotes)
\* Note numbers handed to startNote/stopNote: the valid ones and two non-positive ones.
NoteInputs == ValidNotes \cup {0, -1}
\* Velocities handed to startNote: silent, and two audible ones.
Velocities == {0, 100, 127}
\* The calls explored while the audio task runs: an invalid note and two
\* high notes, whose half-periods are 2 samples and 1 sample; silent and
\* two audible velocities, one of an odd amplitude.
AudioNotes == {0, 127, 135}
AudioVelocities == {0, 64, 100}

-----------------------------------------------------------------------------
(* Arithmetic helpers *)

\* roundf(a / b) for a >= 0, b > 0: round half away from zero.
RoundDiv(a, b) == (2 * a + b) \div (2 * b)

\* constrain(x, lo, hi) of Arduino.h
constrain(x, lo, hi) == IF x < lo THEN lo ELSE IF x > hi THEN hi ELSE x

-----------------------------------------------------------------------------
(* Synthesizer: the voice table *)

VoiceIndex == 0 .. (SYNTH_MAX_VOICES - 1)

\* A VoiceState as its member initialisers leave it.
VoiceState0 ==
    [isActive |-> FALSE, midiNoteNumber |-> 0, frequency |-> 0,
     targetAmplitude |-> 0, currentOutput |-> 0, wavelength |-> 0,
     timeAtLevelRemaining |-> 0]

\* 440 * 2^((n-69)/12) in float arithmetic, in millihertz, for the notes explored.
FrequencyTable ==
    [n \in (60 .. 69) \cup {127, 135} |->
        CASE n = 60 -> 261626 [] n = 61 -> 277183 [] n = 62 -> 293665
          [] n = 63 -> 311127 [] n = 64 -> 329628 [] n = 65 -> 349228
          [] n = 66 -> 369994 [] n = 67 -> 391995 [] n = 68 -> 415305
          [] n = 69 -> 440000 [] n = 127 -> 12543854 [] n = 135 -> 19912127]

\* Mutant of midiNoteToFrequency: the midiNote <= 0 guard is missing, so a
\* non-positive note gets the frequency the formula gives (8.18 Hz for note 0).
midiNoteToFrequency_unguarded(midiNote) ==
    IF midiNote \in DOMAIN FrequencyTable THEN FrequencyTable[midiNote] ELSE 8176

\* Synthesizer::midiNoteToFrequency, in millihertz
midiNoteToFrequency(midiNote) ==
    IF midiNote <= 0 THEN 0 ELSE FrequencyTable[midiNote]

\* Synthesizer::velocityToAmplitude
velocityToAmplitude(velocity) ==
    RoundDiv(constrain(velocity, 0, 127) * SYNTH_MAX_NOTE_AMPLITUDE, 127)

\* Synthesizer::calculate_wavelength, frequency in millihertz (the results
\* for the notes explored fit uint16_t)
calculate_wavelength(frequency) ==
    IF frequency <= 0 THEN 0
    ELSE LET wavelength == RoundDiv(SYNTH_SAMPLE_RATE * 1000, frequency * 2)
         IN  IF wavelength < 1 THEN 1 ELSE wavelength

\* Minimum of a non-empty set of integers.
Min(S) == CHOOSE x \in S : \A y \in S : x <= y

\* Mutant of findFreeVoice_unsafe: steals voice 0 when no slot is free.
findFreeVoice_stealing(vs) ==
    LET free == {i \in VoiceIndex : ~vs[i].isActive}
    IN  IF free = {} THEN 0 ELSE Min(free)

\* Synthesizer::findFreeVoice_unsafe: first inactive slot, or -1
findFreeVoice_unsafe(vs) ==
    LET free == {i \in VoiceIndex : ~vs[i].isActive}
    IN  IF free = {} THEN -1 ELSE Min(free)

\* Mutant of findVoicePlayingNote_unsafe: compares the slot index, not the
\* slot's note, so a playing note is not found.
findVoicePlayingNote_byIndex(vs, midiNoteNumber) ==
    LET playing == {i \in VoiceIndex : vs[i].isActive /\ i = midiNoteNumber}
    IN  IF playing = {} THEN -1 ELSE Min(playing)

\* Synthesizer::findVoicePlayingNote_unsafe: first active slot with the note, or -1
findVoicePlayingNote_unsafe(vs, midiNoteNumber) ==
    LET playing == {i \in VoiceIndex :
                       vs[i].isActive /\ vs[i].midiNoteNumber = midiNoteNumber}
    IN  IF playing = {} THEN -1 ELSE Min(playing)

\* Synthesizer::startNote: the voice table after the call (the body runs
\* under voicesMutex, so it is one step for every other thread).
startNote(vs, noteNumber, velocity) ==
    LET existingVoiceIndex == findVoicePlayingNote_unsafe(vs, noteNumber)
        v1 == IF existingVoiceIndex # -1
              THEN [vs EXCEPT ![existingVoiceIndex].isActive = FALSE]
              ELSE vs
        voiceIndex == findFreeVoice_unsafe(v1)
        freq == midiNoteToFrequency(noteNumber)
        amp  == velocityToAmplitude(velocity)
        wl   == calculate_wavelength(freq)
    IN  IF voiceIndex = -1 THEN v1
        ELSE IF wl > 0 /\ amp # 0
        THEN [v1 EXCEPT ![voiceIndex] =
                 [isActive |-> TRUE, midiNoteNumber |-> noteNumber,
                  frequency |-> freq, targetAmplitude |-> amp,
                  currentOutput |-> amp, wavelength |-> wl,
                  timeAtLevelRemaining |-> wl]]
        ELSE [v1 EXCEPT ![voiceIndex] =
                 [isActive |-> FALSE, midiNoteNumber |-> noteNumber,
                  frequency |-> freq, targetAmplitude |-> amp,
                  currentOutput |-> @.currentOutput, wavelength |-> wl,
                  timeAtLevelRemaining |-> @.timeAtLevelRemaining]]

\* Synthesizer::stopNote: the voice table after the call.
stopNote(vs, noteNumber) ==
    LET voiceIndex == findVoicePlayingNote_unsafe(vs, noteNumber)
    IN  IF voiceIndex # -1
        THEN [vs EXCEPT ![voiceIndex].isActive = FALSE,
                        ![voiceIndex].currentOutput = 0]
        ELSE vs


-----------------------------------------------------------------------------
(* Synthesizer: the audio task *)

\* Mutant of advanceVoice: the countdown is decremented only when the voice
\* did not flip.
advanceVoice_flipOrCount(voice) ==
    IF voice.timeAtLevelRemaining = 0
    THEN [voice EXCEPT
            !.currentOutput = IF voice.currentOutput = voice.targetAmplitude
                              THEN -voice.targetAmplitude
                              ELSE voice.targetAmplitude,
            !.timeAtLevelRemaining = voice.wavelength]
    ELSE [voice EXCEPT !.timeAtLevelRemaining = @ - 1]

\* Mutant of advanceVoice: a flip negates whatever the output is and the
\* countdown restarts one sample late.
advanceVoice_lateRestart(voice) ==
    LET flipped ==
            IF voice.timeAtLevelRemaining = 0
            THEN [voice EXCEPT
                    !.currentOutput = -voice.currentOutput,
                    !.timeAtLevelRemaining = voice.wavelength + 2]
            ELSE voice
    IN  IF flipped.timeAtLevelRemaining > 0
        THEN [flipped EXCEPT !.timeAtLevelRemaining = @ - 1]
        ELSE flipped

\* audioTaskRunner, "Update square wave state" for one active voice: the
\* flip with the countdown reset, then the decrement (two ifs in a row).
advanceVoice(voice) ==
    LET flipped ==
            IF voice.timeAtLevelRemaining = 0
            THEN [voice EXCEPT
                    !.currentOutput = IF voice.currentOutput = voice.targetAmplitude
                                      THEN -voice.targetAmplitude
                                      ELSE voice.targetAmplitude,
                    !.timeAtLevelRemaining = voice.wavelength]
            ELSE voice
    IN  IF flipped.timeAtLevelRemaining > 0
        THEN [flipped EXCEPT !.timeAtLevelRemaining = @ - 1]
        ELSE flipped

\* Mutant of voiceCounts: every voice is mixed, active or not.
voiceCounts_always(voice) == TRUE

\* audioTaskRunner, the test that lets a voice into the pass
voiceCounts(voice) == voice.isActive

\* roundf(a / b) for b > 0, a of either sign: round half away from zero.
roundfDiv(a, b) == IF a >= 0 THEN RoundDiv(a, b) ELSE -RoundDiv(-a, b)

\* audioTaskRunner, "Mix, Scale, Clamp": the float mean compared with the
\* output limits (exactly, as sums against multiples of the count), then
\* rounded.
mixSample(sum, count) ==
    IF count > 0
    THEN IF sum > SYNTH_MAX_OUTPUT_AMPLITUDE * count THEN SYNTH_MAX_OUTPUT_AMPLITUDE
         ELSE IF sum < SYNTH_MIN_OUTPUT_AMPLITUDE * count THEN SYNTH_MIN_OUTPUT_AMPLITUDE
         ELSE roundfDiv(sum, count)
    ELSE SYNTH_SILENCE_AMPLITUDE

\* Mutant of xSemaphoreTake: the take does not wait for the holder.
xSemaphoreTake_noWait(mutex) == TRUE

\* xSemaphoreTake(voicesMutex, portMAX_DELAY): the caller goes on, holding
\* the mutex, only once nobody holds it.
xSemaphoreTake(mutex) == mutex = "free"

-----------------------------------------------------------------------------
(* unsigned long (32 bits) as <<high 16 bits, low 16 bits>> *)

Half == 2^16

\* a + d modulo 2^32, for 0 <= d < 2^31
U32Add(a, d) ==
    LET lo == a[2] + (d % Half)
        hi == a[1] + (d \div Half) + (lo \div Half)
    IN  <<hi % Half, lo % Half>>

\* a >= b on unsigned long
U32Ge(a, b) == a[1] > b[1] \/ (a[1] = b[1] /\ a[2] >= b[2])

-----------------------------------------------------------------------------
(* Flash: the song catalog and the event arrays (external, read-only) *)

NULL == 0

\* The event arrays in flash, by data reference: six bytes per event
\* (delta high, delta low, kind, note, velocity, reserved).
FlashData ==
    [p \in {1, 2} |->
        IF p = 1
        THEN \* delta 96 on 60 vel 100; delta 48 off 60
             <<0, 96, 1, 60, 100, 0,    0, 48, 0, 60, 0, 0>>
        ELSE \* delta 0 on 62 vel 100; delta 256 on 60 vel 100; delta 0 on 62 vel 0
             <<0, 0, 1, 62, 100, 0,    1, 0, 1, 60, 100, 0,    0, 0, 1, 62, 0, 0>>]

\* Whether base + offset lies inside the array that starts at base.
InFlash(base, offset) ==
    /\ base \in DOMAIN FlashData
    /\ offset + 1 \in DOMAIN FlashData[base]

\* pgm_read_byte_near(base + offset); outside the arrays (through a null
\* pointer or past the end of one) the read comes back with whatever byte
\* lies there
pgm_read_byte_near(base, offset) ==
    IF InFlash(base, offset) THEN FlashData[base][offset + 1] ELSE strayFlash

\* The SongInfo records a caller may pass to loadSong; 0 stands for a null
\* SongInfo address. Songs 1 and 2 are valid, 3 has a null data reference,
\* 4 has an event count of zero.
SongRefs == 0 .. 4
SongInfo(ref) ==
    CASE ref = 1 -> [midi_data_ptr |-> 1, event_count |-> 2, bpm |-> 120]
      [] ref = 2 -> [midi_data_ptr |-> 2, event_count |-> 3, bpm |-> 0]
      [] ref = 3 -> [midi_data_ptr |-> NULL, event_count |-> 2, bpm |-> 90]
      [] ref = 4 -> [midi_data_ptr |-> 1, event_count |-> 0, bpm |-> 100]

-----------------------------------------------------------------------------
(* MidiPlayer helpers *)

\* MidiPlayer::calculateTimingFactors: millis_per_tick as a fraction
calculateTimingFactors(bpm) ==
    LET b == IF bpm <= 0 THEN 120 ELSE bpm
    IN  IF TICKS_PER_QUARTER_NOTE > 0
        THEN [num |-> 60000000 \div 1000, den |-> b * TICKS_PER_QUARTER_NOTE]
        ELSE [num |-> 0, den |-> 1]

\* MidiPlayer::convertTicksToMillis
convertTicksToMillis(ticks, mpt) == RoundDiv(ticks * mpt.num, mpt.den)

\* MidiPlayer::pgm_read_uint16_big_endian
pgm_read_uint16_big_endian(base, offset) ==
    pgm_read_byte_near(base, offset) * 256 + pgm_read_byte_near(base, offset + 1)

\* MidiPlayer::processCurrentEvent: the voice table after the event at
\* index is executed.
processCurrentEvent(vs, ptr, index) ==
    LET addr == index * BYTES_PER_EVENT
        event_type  == pgm_read_byte_near(ptr, addr + 2)
        note_number == pgm_read_byte_near(ptr, addr + 3)
        velocity    == pgm_read_byte_near(ptr, addr + 4)
    IN  IF event_type = 1
        THEN IF velocity > 0 THEN startNote(vs, note_number, velocity)
                             ELSE stopNote(vs, note_number)
        ELSE IF event_type = 0 THEN stopNote(vs, note_number)
        ELSE vs

\* scheduleNextEvent, the event whose delta it reads: <<array, index>>
scheduleReads(ptr, index, count) ==
    IF index < count THEN {<<ptr, index>>} ELSE {}

\* Mutant of scheduleNextEvent: after the last event the deadline is moved
\* one millisecond past the processing time.
scheduleNextEvent_rearmed(deadline, ptr, index, count, mpt, current_processing_time_ms) ==
    IF index < count
    THEN U32Add(current_processing_time_ms,
                convertTicksToMillis(
                    pgm_read_uint16_big_endian(ptr, index * BYTES_PER_EVENT), mpt))
    ELSE U32Add(current_processing_time_ms, 1)

\* Mutant of scheduleNextEvent: the delta is added to the previous deadline.
scheduleNextEvent_fromDeadline(deadline, ptr, index, count, mpt, current_processing_time_ms) ==
    IF index < count
    THEN U32Add(deadline,
                convertTicksToMillis(
                    pgm_read_uint16_big_endian(ptr, index * BYTES_PER_EVENT), mpt))
    ELSE deadline

\* MidiPlayer::scheduleNextEvent: the deadline after the index has advanced
scheduleNextEvent(deadline, ptr, index, count, mpt, current_processing_time_ms) ==
    IF index < count
    THEN U32Add(current_processing_time_ms,
                convertTicksToMillis(
                    pgm_read_uint16_big_endian(ptr, index * BYTES_PER_EVENT), mpt))
    ELSE deadline


-----------------------------------------------------------------------------
(* History record of the last call *)

LastNone ==
    [op |-> "none", note |-> 0, vel |-> 0, song |-> 0, ret |-> FALSE,
     fired |-> -1, wasFull |-> FALSE, wasPlaying |-> FALSE,
     repeat |-> FALSE, afterLoad |-> FALSE, at |-> <<0, 0>>, reads |-> {}]

\* No startNote/stopNote call is in progress.
NoRequest == [op |-> "none", note |-> 0, vel |-> 0]

\* millis() values at which exploration starts: shortly after boot, and
\* 500 ms before the 32-bit counter wraps.
ClockStarts == {<<0, 1500>>, <<Half - 1, Half - 500>>}

-----------------------------------------------------------------------------
(* Initial state: constructors, synth.init() and player.init(synth) *)

Init ==
    /\ voices = [i \in VoiceIndex |-> VoiceState0]
    /\ current_song_data_ptr = NULL
    /\ current_event_count = 0
    /\ current_bpm = 0
    /\ millis_per_tick = [num |-> 0, den |-> 1]
    /\ is_playing = FALSE
    /\ current_event_index = 0
    /\ next_event_time_ms = <<0, 0>>
    /\ now \in ClockStarts
    /\ last = LastNone
    /\ dispatched = <<>>
    /\ waited = 0
    /\ strayFlash \in StrayBytes
    /\ failedLoads = 0
    /\ elapsed = 0
    /\ calls = 0
    /\ maxNote = 59
    /\ voicesMutex = "free"
    /\ pcControl = "idle"
    /\ request = NoRequest
    /\ pcRender = "take"
    /\ renderIndex = 0
    /\ summedSample_raw = 0
    /\ activeVoiceCount = 0
    /\ finalSample = 0

-----------------------------------------------------------------------------
(* Direct calls of the synthesizer *)

\* Every voice is active / some voice is active for the note (read off the
\* table itself, not through the find helpers).
AllActive(vs) == \A i \in VoiceIndex : vs[i].isActive
ActiveFor(vs, n) == {i \in VoiceIndex : vs[i].isActive /\ vs[i].midiNoteNumber = n}

\* How the direct calls are explored.  Note numbers are interchangeable but
\* for their frequency, so a caller brings new notes in ascending order
\* (60, 61, ...): a call may name the notes used so far, the next one, or a
\* non-positive one.  The first note-on of the next key, at velocity 100, is
\* always allowed, which lets the table fill up; every other call (a
\* re-trigger, a silent or invalid note-on, a note-off) counts against
\* MaxCalls.
NewKey(n, v) == n = maxNote + 1 /\ v = 100

\* synth.startNote(n, v)
StartNote(n, v) ==
    /\ n <= maxNote + 1
    /\ NewKey(n, v) \/ calls < MaxCalls
    /\ voices' = startNote(voices, n, v)
    /\ last' = [LastNone EXCEPT
                  !.op = "startNote", !.note = n, !.vel = v,
                  !.wasFull = AllActive(voices),
                  !.wasPlaying = (ActiveFor(voices, n) # {}),
                  !.repeat = (last.op = "startNote" /\ last.note = n /\ last.vel = v)]
    /\ maxNote' = (IF n > maxNote THEN n ELSE maxNote)
    /\ calls' = (IF NewKey(n, v) THEN calls ELSE calls + 1)
    /\ UNCHANGED <<playerVars, now, dispatched, waited, failedLoads, elapsed>>
    /\ UNCHANGED <<audioVars, strayFlash>>

\* synth.stopNote(n)
StopNote(n) ==
    /\ n <= maxNote + 1
    /\ calls < MaxCalls
    /\ voices' = stopNote(voices, n)
    /\ last' = [LastNone EXCEPT
                  !.op = "stopNote", !.note = n,
                  !.wasFull = AllActive(voices),
                  !.wasPlaying = (ActiveFor(voices, n) # {})]
    /\ calls' = calls + 1
    /\ UNCHANGED <<playerVars, now, dispatched, waited, failedLoads, elapsed, maxNote>>
    /\ UNCHANGED <<audioVars, strayFlash>>

-----------------------------------------------------------------------------
(* The calling thread and the audio task on the voice table *)

\* startNote(n, v) is entered: next is the take of the mutex
CallStartNote(n, v) ==
    /\ pcControl = "idle"
    /\ calls < MaxAudioCalls
    /\ request' = [op |-> "startNote", note |-> n, vel |-> v]
    /\ pcControl' = "take"
    /\ calls' = calls + 1
    /\ UNCHANGED <<voices, voicesMutex, pcRender, renderIndex, summedSample_raw,
                   activeVoiceCount, finalSample>>
    /\ UNCHANGED <<playerVars, strayFlash, now, last, dispatched, waited, failedLoads, elapsed, maxNote>>

\* stopNote(n) is entered: next is the take of the mutex
CallStopNote(n) ==
    /\ pcControl = "idle"
    /\ calls < MaxAudioCalls
    /\ request' = [op |-> "stopNote", note |-> n, vel |-> 0]
    /\ pcControl' = "take"
    /\ calls' = calls + 1
    /\ UNCHANGED <<voices, voicesMutex, pcRender, renderIndex, summedSample_raw,
                   activeVoiceCount, finalSample>>
    /\ UNCHANGED <<playerVars, strayFlash, now, last, dispatched, waited, failedLoads, elapsed, maxNote>>

\* startNote/stopNote: xSemaphoreTake returns
ControlTake ==
    /\ pcControl = "take"
    /\ xSemaphoreTake(voicesMutex)
    /\ voicesMutex' = "control"
    /\ pcControl' = "body"
    /\ UNCHANGED <<voices, request, pcRender, renderIndex, summedSample_raw,
                   activeVoiceCount, finalSample>>
    /\ UNCHANGED <<playerVars, strayFlash, now, last, dispatched, waited, failedLoads, elapsed, calls,
                   maxNote>>

\* startNote/stopNote: the work on the voice table
ControlBody ==
    /\ pcControl = "body"
    /\ voices' = IF request.op = "startNote"
                 THEN startNote(voices, request.note, request.vel)
                 ELSE stopNote(voices, request.note)
    /\ pcControl' = "give"
    /\ UNCHANGED <<voicesMutex, request, pcRender, renderIndex, summedSample_raw,
                   activeVoiceCount, finalSample>>
    /\ UNCHANGED <<playerVars, strayFlash, now, last, dispatched, waited, failedLoads, elapsed, calls,
                   maxNote>>

\* Mutant of ControlGive: the call returns without giving the mutex back.
ControlGive_keeps ==
    /\ pcControl = "give"
    /\ pcControl' = "idle"
    /\ request' = NoRequest
    /\ UNCHANGED <<voices, voicesMutex, pcRender, renderIndex, summedSample_raw,
                   activeVoiceCount, finalSample>>
    /\ UNCHANGED <<playerVars, strayFlash, now, last, dispatched, waited, failedLoads, elapsed, calls,
                   maxNote>>

\* startNote/stopNote: xSemaphoreGive and return
ControlGive ==
    /\ pcControl = "give"
    /\ voicesMutex' = "free"
    /\ pcControl' = "idle"
    /\ request' = NoRequest
    /\ UNCHANGED <<voices, pcRender, renderIndex, summedSample_raw,
                   activeVoiceCount, finalSample>>
    /\ UNCHANGED <<playerVars, strayFlash, now, last, dispatched, waited, failedLoads, elapsed, calls,
                   maxNote>>

\* audioTaskRunner: xSemaphoreTake returns, the for loop starts
RenderTake ==
    /\ pcRender = "take"
    /\ xSemaphoreTake(voicesMutex)
    /\ voicesMutex' = "render"
    /\ renderIndex' = 0
    /\ pcRender' = "voice"
    /\ UNCHANGED <<voices, pcControl, request, summedSample_raw, activeVoiceCount,
                   finalSample>>
    /\ UNCHANGED <<playerVars, strayFlash, now, last, dispatched, waited, failedLoads, elapsed, calls,
                   maxNote>>

\* audioTaskRunner: one turn of the for loop, on voices[i]
RenderVoice ==
    /\ pcRender = "voice"
    /\ IF voiceCounts(voices[renderIndex])
       THEN /\ activeVoiceCount' = activeVoiceCount + 1
            /\ voices' = [voices EXCEPT ![renderIndex] = advanceVoice(@)]
            /\ summedSample_raw' =
                 summedSample_raw + advanceVoice(voices[renderIndex]).currentOutput
       ELSE UNCHANGED <<voices, activeVoiceCount, summedSample_raw>>
    /\ renderIndex' = renderIndex + 1
    /\ pcRender' = (IF renderIndex + 1 < SYNTH_MAX_VOICES THEN "voice" ELSE "give")
    /\ UNCHANGED <<voicesMutex, pcControl, request, finalSample>>
    /\ UNCHANGED <<playerVars, strayFlash, now, last, dispatched, waited, failedLoads, elapsed, calls,
                   maxNote>>

\* Mutant of RenderGive: the audio task goes on without giving the mutex back.
RenderGive_keeps ==
    /\ pcRender = "give"
    /\ pcRender' = "mix"
    /\ UNCHANGED <<voices, voicesMutex, pcControl, request, renderIndex,
                   summedSample_raw, activeVoiceCount, finalSample>>
    /\ UNCHANGED <<playerVars, strayFlash, now, last, dispatched, waited, failedLoads, elapsed, calls,
                   maxNote>>

\* audioTaskRunner: xSemaphoreGive after the for loop
RenderGive ==
    /\ pcRender = "give"
    /\ voicesMutex' = "free"
    /\ pcRender' = "mix"
    /\ UNCHANGED <<voices, pcControl, request, renderIndex, summedSample_raw,
                   activeVoiceCount, finalSample>>
    /\ UNCHANGED <<playerVars, strayFlash, now, last, dispatched, waited, failedLoads, elapsed, calls,
                   maxNote>>

\* audioTaskRunner: the sample is mixed from the sum and the count
RenderMix ==
    /\ pcRender = "mix"
    /\ finalSample' = mixSample(summedSample_raw, activeVoiceCount)
    /\ pcRender' = "write"
    /\ UNCHANGED <<voices, voicesMutex, pcControl, request, renderIndex,
                   summedSample_raw, activeVoiceCount>>
    /\ UNCHANGED <<playerVars, strayFlash, now, last, dispatched, waited, failedLoads, elapsed, calls,
                   maxNote>>

\* audioTaskRunner: send_sample_to_i2s returns and the while loop starts
\* over with fresh locals
RenderWrite ==
    /\ pcRender = "write"
    /\ summedSample_raw' = 0
    /\ activeVoiceCount' = 0
    /\ finalSample' = 0
    /\ renderIndex' = 0
    /\ pcRender' = "take"
    /\ UNCHANGED <<voices, voicesMutex, pcControl, request>>
    /\ UNCHANGED <<playerVars, strayFlash, now, last, dispatched, waited, failedLoads, elapsed, calls,
                   maxNote>>

-----------------------------------------------------------------------------
(* Calls of the player *)

CountLoadFailure ==
    failedLoads' = (IF failedLoads < MaxFailedLoads THEN failedLoads + 1
                    ELSE failedLoads)

\* loadSong, first return: a null SongInfo address
LoadNullRef ==
    /\ UNCHANGED playerVars
    /\ last' = [LastNone EXCEPT !.op = "loadSong", !.song = 0, !.ret = FALSE]
    /\ CountLoadFailure

\* loadSong, the validation of what was read into the session
songInvalid(ptr, count) == ptr = NULL \/ count = 0

\* Mutant of LoadInvalid: the data pointer is cleared but the event count
\* read from the rejected SongInfo stays.
LoadInvalid_keepsCount(ref) ==
    /\ current_bpm' = SongInfo(ref).bpm
    /\ current_song_data_ptr' = NULL
    /\ current_event_count' = SongInfo(ref).event_count
    /\ UNCHANGED <<millis_per_tick, is_playing, current_event_index,
                   next_event_time_ms>>
    /\ last' = [LastNone EXCEPT !.op = "loadSong", !.song = ref, !.ret = FALSE]
    /\ CountLoadFailure

\* loadSong, second return: the metadata was read into the session and
\* found invalid
LoadInvalid(ref) ==
    /\ current_bpm' = SongInfo(ref).bpm
    /\ current_song_data_ptr' = NULL
    /\ current_event_count' = 0
    /\ UNCHANGED <<millis_per_tick, is_playing, current_event_index,
                   next_event_time_ms>>
    /\ last' = [LastNone EXCEPT !.op = "loadSong", !.song = ref, !.ret = FALSE]
    /\ CountLoadFailure

\* Mutant of LoadValid: the playback state is not reset for the new song.
LoadValid_noReset(ref) ==
    /\ current_bpm' = SongInfo(ref).bpm
    /\ current_song_data_ptr' = SongInfo(ref).midi_data_ptr
    /\ current_event_count' = SongInfo(ref).event_count
    /\ millis_per_tick' = calculateTimingFactors(SongInfo(ref).bpm)
    /\ UNCHANGED <<is_playing, current_event_index, next_event_time_ms>>
    /\ last' = [LastNone EXCEPT !.op = "loadSong", !.song = ref, !.ret = TRUE]
    /\ UNCHANGED failedLoads

\* loadSong, the song is accepted
LoadValid(ref) ==
    /\ current_bpm' = SongInfo(ref).bpm
    /\ current_song_data_ptr' = SongInfo(ref).midi_data_ptr
    /\ current_event_count' = SongInfo(ref).event_count
    /\ millis_per_tick' = calculateTimingFactors(SongInfo(ref).bpm)
    /\ is_playing' = FALSE
    /\ current_event_index' = 0
    /\ next_event_time_ms' = <<0, 0>>
    /\ last' = [LastNone EXCEPT !.op = "loadSong", !.song = ref, !.ret = TRUE]
    /\ UNCHANGED failedLoads

\* player.loadSong(&song_list[ref]), or loadSong(nullptr) for ref = 0
LoadSong(ref) ==
    /\ IF ref = 0 THEN LoadNullRef
       ELSE IF songInvalid(SongInfo(ref).midi_data_ptr, SongInfo(ref).event_count)
       THEN LoadInvalid(ref)
       ELSE LoadValid(ref)
    /\ UNCHANGED <<voices, now, dispatched, waited, elapsed, calls, maxNote>>
    /\ UNCHANGED <<audioVars, strayFlash>>

\* start, the two early returns
startRefused ==
    is_playing \/ current_event_count = 0 \/ current_song_data_ptr = NULL

\* start, the first event is scheduled
StartPlayback ==
    /\ current_event_index' = 0
    /\ is_playing' = TRUE
    /\ next_event_time_ms' =
         U32Add(now, convertTicksToMillis(
                         pgm_read_uint16_big_endian(current_song_data_ptr, 0),
                         millis_per_tick))
    /\ dispatched' = <<>>
    /\ waited' = 0
    /\ UNCHANGED <<current_song_data_ptr, current_event_count, current_bpm,
                   millis_per_tick>>

\* player.start()
Start ==
    /\ IF startRefused THEN UNCHANGED <<playerVars, dispatched, waited>>
       ELSE StartPlayback
    /\ last' = [LastNone EXCEPT !.op = "start",
                                !.wasPlaying = is_playing,
                                !.afterLoad = (last.op = "loadSong" /\ last.ret),
                                !.reads = (IF startRefused THEN {}
                                           ELSE {<<current_song_data_ptr, 0>>})]
    /\ UNCHANGED <<voices, now, failedLoads, elapsed, calls, maxNote>>
    /\ UNCHANGED <<audioVars, strayFlash>>

\* Mutant of Stop: stopping also rewinds the song.
Stop_rewinds ==
    /\ is_playing' = (IF ~is_playing THEN is_playing ELSE FALSE)
    /\ current_event_index' = (IF ~is_playing THEN current_event_index ELSE 0)
    /\ last' = [LastNone EXCEPT !.op = "stop", !.wasPlaying = is_playing]
    /\ UNCHANGED <<current_song_data_ptr, current_event_count, current_bpm,
                   millis_per_tick, next_event_time_ms>>
    /\ UNCHANGED <<voices, now, dispatched, waited, failedLoads, elapsed, calls, maxNote>>
    /\ UNCHANGED <<audioVars, strayFlash>>

\* player.stop()
Stop ==
    /\ is_playing' = (IF ~is_playing THEN is_playing ELSE FALSE)
    /\ last' = [LastNone EXCEPT !.op = "stop", !.wasPlaying = is_playing]
    /\ UNCHANGED <<current_song_data_ptr, current_event_count, current_bpm,
                   millis_per_tick, current_event_index, next_event_time_ms>>
    /\ UNCHANGED <<voices, now, dispatched, waited, failedLoads, elapsed, calls, maxNote>>
    /\ UNCHANGED <<audioVars, strayFlash>>

\* Mutant of UpdateIdle: a session that is not playing but has events left
\* processes the next one.
UpdateIdle_fires ==
    IF current_event_index < current_event_count
    THEN /\ voices' = processCurrentEvent(voices, current_song_data_ptr,
                                          current_event_index)
         /\ current_event_index' = current_event_index + 1
         /\ UNCHANGED <<is_playing, next_event_time_ms, dispatched, waited>>
         /\ last' = [LastNone EXCEPT !.op = "update", !.ret = FALSE]
    ELSE /\ UNCHANGED <<is_playing, current_event_index, next_event_time_ms,
                        voices, dispatched, waited>>
         /\ last' = [LastNone EXCEPT !.op = "update", !.ret = FALSE]

\* update, first return: not playing
UpdateIdle ==
    /\ UNCHANGED <<is_playing, current_event_index, next_event_time_ms,
                   voices, dispatched, waited>>
    /\ last' = [LastNone EXCEPT !.op = "update", !.ret = FALSE]

\* Mutant of deadlineReached: the event fires on every poll.
deadlineReached_always(current_time_ms, deadline) == TRUE

\* update, the deadline test on the unsigned millisecond counter
deadlineReached(current_time_ms, deadline) == U32Ge(current_time_ms, deadline)

\* Mutant of UpdateFinish: the end of the song is found but the session is
\* left playing.
UpdateFinish_staysPlaying ==
    /\ UNCHANGED <<is_playing, current_event_index, next_event_time_ms, voices,
                   dispatched, waited>>
    /\ last' = [LastNone EXCEPT !.op = "update", !.ret = FALSE, !.wasPlaying = TRUE]

\* update, the end of the song is found at the deadline
UpdateFinish ==
    /\ is_playing' = FALSE
    /\ UNCHANGED <<current_event_index, next_event_time_ms, voices, dispatched, waited>>
    /\ last' = [LastNone EXCEPT !.op = "update", !.ret = FALSE, !.wasPlaying = TRUE]

\* update, the current event is processed and the next one scheduled
UpdateFire ==
    /\ voices' = processCurrentEvent(voices, current_song_data_ptr,
                                     current_event_index)
    /\ current_event_index' = current_event_index + 1
    /\ next_event_time_ms' =
         scheduleNextEvent(next_event_time_ms, current_song_data_ptr,
                           current_event_index + 1, current_event_count,
                           millis_per_tick, now)
    /\ dispatched' = Append(dispatched, current_event_index)
    /\ waited' = 0
    /\ UNCHANGED is_playing
    /\ last' = [LastNone EXCEPT !.op = "update", !.ret = is_playing,
                                !.fired = current_event_index, !.wasPlaying = TRUE,
                                !.at = now,
                                !.reads = {<<current_song_data_ptr, current_event_index>>}
                                          \cup scheduleReads(current_song_data_ptr,
                                                              current_event_index + 1,
                                                              current_event_count)]

\* update, the deadline is still ahead
UpdateWait ==
    /\ UNCHANGED <<is_playing, current_event_index, next_event_time_ms,
                   voices, dispatched, waited>>
    /\ last' = [LastNone EXCEPT !.op = "update", !.ret = is_playing,
                                !.wasPlaying = TRUE]

\* player.update()
Update ==
    /\ IF ~is_playing THEN UpdateIdle
       ELSE IF deadlineReached(now, next_event_time_ms)
       THEN IF current_event_index >= current_event_count
            THEN UpdateFinish
            ELSE UpdateFire
       ELSE UpdateWait
    /\ UNCHANGED <<current_song_data_ptr, current_event_count, current_bpm,
                   millis_per_tick>>
    /\ UNCHANGED <<now, failedLoads, elapsed, calls, maxNote>>
    /\ UNCHANGED <<audioVars, strayFlash>>

\* millis() advances while the program runs
Tick(d) ==
    /\ elapsed < MaxTicks
    /\ now' = U32Add(now, d)
    /\ elapsed' = elapsed + 1
    /\ waited' = waited + d
    /\ UNCHANGED <<voices, playerVars, last, dispatched, failedLoads, calls, maxNote>>
    /\ UNCHANGED <<audioVars, strayFlash>>

\* millis() advances: for MaxTicks steps, and past them for as long as a
\* playing session waits for its deadline
TickLive(d) ==
    /\ \/ elapsed < MaxTicks
       \/ is_playing /\ ~U32Ge(now, next_event_time_ms)
    /\ now' = U32Add(now, d)
    /\ elapsed' = (IF elapsed < MaxTicks THEN elapsed + 1 ELSE elapsed)
    /\ waited' = waited + d
    /\ UNCHANGED <<voices, playerVars, last, dispatched, failedLoads, calls, maxNote>>
    /\ UNCHANGED <<audioVars, strayFlash>>

\* player.loadSong between playbacks
LoadSongStopped(ref) == ~is_playing /\ LoadSong(ref)

\* player.start() within the first MaxTicks clock steps
StartEarly == elapsed < MaxTicks /\ Start

-----------------------------------------------------------------------------
(* Specifications *)

\* The player driven through its interface, the clock advancing.
Next ==
    \/ \E ref \in SongRefs : LoadSong(ref)
    \/ Start
    \/ Stop
    \/ Update
    \/ \E d \in ClockSteps : Tick(d)

Spec == Init /\ [][Next]_vars

\* The synthesizer driven directly through startNote and stopNote.
NextPool ==
    \/ \E n \in NoteInputs, v \in Velocities : StartNote(n, v)
    \/ \E n \in NoteInputs : StopNote(n)

InitPool == Init /\ now = <<0, 1500>> /\ strayFlash = 0

SpecPool == InitPool /\ [][NextPool]_vars

\* The sketch's loop(): update() is called over and over while millis()
\* advances; nothing stops the session or loads a song while it plays.
NextLive ==
    \/ \E ref \in SongRefs : LoadSongStopped(ref)
    \/ StartEarly
    \/ Update
    \/ \E d \in ClockSteps : TickLive(d)

SpecLive ==
    /\ InitPool
    /\ [][NextLive]_vars
    /\ WF_vars(Update)
    /\ WF_vars(\E d \in ClockSteps : TickLive(d))

\* The audio task running while a thread calls startNote and stopNote.
NextAudio ==
    \/ \E n \in AudioNotes, v \in AudioVelocities : CallStartNote(n, v)
    \/ \E n \in AudioNotes : CallStopNote(n)
    \/ ControlTake
    \/ ControlBody
    \/ ControlGive
    \/ RenderTake
    \/ RenderVoice
    \/ RenderGive
    \/ RenderMix
    \/ RenderWrite

SpecAudio == InitPool /\ [][NextAudio]_vars

\* The two threads under the FreeRTOS scheduler: a thread that can run does
\* run, and a thread waiting in xSemaphoreTake gets the mutex when it comes
\* free often enough (the mutex wakes its waiter on xSemaphoreGive).  New
\* calls need not come, and the write in send_sample_to_i2s may block for
\* good.
NextAudioFair ==
    \/ \E n \in AudioNotes, v \in AudioVelocities :
            calls < MaxFairCalls /\ CallStartNote(n, v)
    \/ \E n \in AudioNotes : calls < MaxFairCalls /\ CallStopNote(n)
    \/ ControlTake
    \/ ControlBody
    \/ ControlGive
    \/ RenderTake
    \/ RenderVoice
    \/ RenderGive
    \/ RenderMix
    \/ RenderWrite

SpecAudioFair ==
    /\ InitPool
    /\ [][NextAudioFair]_vars
    /\ SF_vars(ControlTake)
    /\ WF_vars(ControlBody)
    /\ WF_vars(ControlGive)
    /\ SF_vars(RenderTake)
    /\ WF_vars(RenderVoice)
    /\ WF_vars(RenderGive)
    /\ WF_vars(RenderMix)

-----------------------------------------------------------------------------
(* Claims about the voice table, checked under SpecPool *)

\* C1: with all SYNTH_MAX_VOICES voices active, startNote(n, v) for a note
\* with no active voice leaves every field of every voice as it was, and no
\* voice for n becomes active.
C1_FullPoolNoteOnIsNoOp ==
    [][(/\ AllActive(voices)
        /\ last'.op = "startNote"
        /\ ActiveFor(voices, last'.note) = {}
        /\ StartNote(last'.note, last'.vel))
          => (voices' = voices /\ ActiveFor(voices', last'.note) = {})]_vars

\* C1 witness: a valid, audible note-on has been dropped on a full table.
C1_Witness ==
    /\ last.op = "startNote" /\ last.wasFull /\ ~last.wasPlaying
    /\ last.note \in ValidNotes /\ last.vel > 0
    /\ AllActive(voices)


\* At most one voice is active for any note number.
AtMostOneVoicePerNote ==
    \A i, j \in VoiceIndex :
        (voices[i].isActive /\ voices[j].isActive
           /\ voices[i].midiNoteNumber = voices[j].midiNoteNumber) => i = j

\* The last two calls were both startNote(n, v) with a valid n and v > 0.
StartedTwice ==
    /\ last.op = "startNote" /\ last.repeat
    /\ last.note \in ValidNotes /\ last.vel > 0

\* C2 as stated: at most one voice is active for any note, and startNote(n, v)
\* twice with a valid n and v > 0 leaves exactly one active voice for n.
C2_Original ==
    /\ AtMostOneVoicePerNote
    /\ StartedTwice => Cardinality(ActiveFor(voices, last.note)) = 1

\* C2 amended: at most one voice is active for any note; startNote(n, v)
\* twice with a valid n and v > 0 leaves exactly one active voice for n,
\* except when all voices are active for other notes: then both calls are
\* dropped and no voice is active for n.
C2_AtMostOneVoicePerNote ==
    /\ AtMostOneVoicePerNote
    /\ StartedTwice =>
          IF last.wasFull /\ ~last.wasPlaying
          THEN Cardinality(ActiveFor(voices, last.note)) = 0
          ELSE Cardinality(ActiveFor(voices, last.note)) = 1

\* C2 witness: a playing note has been started a second time, other notes
\* playing beside it.
C2_Witness ==
    /\ StartedTwice /\ last.wasPlaying
    /\ Cardinality(ActiveFor(voices, last.note)) = 1
    /\ Cardinality({i \in VoiceIndex : voices[i].isActive}) >= 2

\* C3 as stated, for the direct call: startNote(n, 0) leaves no voice active
\* for n and every voice slot with the field values stopNote(n) gives.
C3_Original ==
    [][(last'.op = "startNote" /\ last'.vel = 0 /\ StartNote(last'.note, 0))
          => /\ ActiveFor(voices', last'.note) = {}
             /\ voices' = stopNote(voices, last'.note)]_vars

\* C4: startNote(n, v) with n <= 0 starts no voice: no voice is active for
\* n afterwards, every voice active before is active after with all its
\* fields as they were, and no other voice is active.
C4_NonPositiveNoteStartsNoVoice ==
    [][(last'.op = "startNote" /\ last'.note <= 0
          /\ StartNote(last'.note, last'.vel))
          => /\ ActiveFor(voices', last'.note) = {}
             /\ \A i \in VoiceIndex :
                   /\ voices[i].isActive => voices'[i] = voices[i]
                   /\ voices'[i].isActive => voices[i].isActive]_vars

\* C4 witness: an audible note-on for a non-positive note has claimed a free
\* slot while other voices were playing.
C4_Witness ==
    /\ last.op = "startNote" /\ last.note <= 0 /\ last.vel > 0 /\ ~last.wasFull
    /\ \E i \in VoiceIndex : voices[i].isActive
    /\ \E i \in VoiceIndex : ~voices[i].isActive /\ voices[i].midiNoteNumber = last.note
                               /\ voices[i].targetAmplitude > 0


\* C16: every deactivation of a voice zeroes its output: in every reachable
\* state of the pool a voice that is not active has currentOutput = 0,
\* whether a note-off, a re-trigger of its note or the rejection of an
\* invalid note deactivated it.
C16_Original ==
    \A i \in VoiceIndex : ~voices[i].isActive => voices[i].currentOutput = 0

-----------------------------------------------------------------------------
(* Claims about the playback session, checked under Spec *)

\* loadSong(ref) fails: null SongInfo address, null data reference or no events.
FailingLoad(ref) ==
    IF ref = 0 THEN TRUE
    ELSE SongInfo(ref).midi_data_ptr = NULL \/ SongInfo(ref).event_count = 0

\* A valid song is loaded.
ValidLoaded == current_song_data_ptr # NULL /\ current_event_count > 0

\* C5 as stated: a loadSong that fails returns false and leaves the data
\* reference, event count, tempo factor, event index, deadline and
\* is-playing flag as they were, from every prior state.
C5_Original ==
    [][(last'.op = "loadSong" /\ FailingLoad(last'.song) /\ LoadSong(last'.song))
          => /\ last'.ret = FALSE
             /\ UNCHANGED <<current_song_data_ptr, current_event_count,
                            millis_per_tick, current_event_index,
                            next_event_time_ms, is_playing>>]_vars

\* C6: whatever loadSong calls failed before, loadSong of a valid song
\* returns true and leaves the session Loaded (not playing, index 0, the
\* count and data reference of that song), and a start() right after it
\* begins playback at index 0.
C6_ValidLoadAfterFailures ==
    /\ (last.op = "loadSong" /\ ~FailingLoad(last.song))
          => /\ last.ret
             /\ ~is_playing
             /\ current_event_index = 0
             /\ current_event_count = SongInfo(last.song).event_count
             /\ current_song_data_ptr = SongInfo(last.song).midi_data_ptr
    /\ (last.op = "start" /\ last.afterLoad)
          => (is_playing /\ current_event_index = 0)

\* C6 witness: two loadSong calls failed, then a valid song was loaded, and
\* the start() that followed began playback.
C6_Witness ==
    /\ failedLoads >= 2
    /\ last.op = "start" /\ last.afterLoad /\ ~last.wasPlaying
    /\ is_playing /\ ValidLoaded

\* round(delta of event 0 * millisPerTick) for the loaded song
FirstDeltaMs ==
    LET delta == FlashData[current_song_data_ptr][1] * 256
                   + FlashData[current_song_data_ptr][2]
    IN  (2 * delta * millis_per_tick.num + millis_per_tick.den)
           \div (2 * millis_per_tick.den)

\* C7 as stated: start() takes effect only when not playing with a valid
\* song loaded, then setting index 0, deadline now + round(delta0 *
\* millisPerTick) and Playing; with no valid song loaded it leaves the
\* session not playing; while Playing it changes neither index nor deadline.
C7_Original ==
    [][Start =>
          /\ (~is_playing /\ ValidLoaded)
                => /\ current_event_index' = 0
                   /\ next_event_time_ms' = U32Add(now, FirstDeltaMs)
                   /\ is_playing'
          /\ ~(~is_playing /\ ValidLoaded) => UNCHANGED playerVars
          /\ ~ValidLoaded => ~is_playing'
          /\ is_playing => UNCHANGED <<current_event_index, next_event_time_ms>>]_vars

\* C8: update() while not playing returns false, dispatches no event and
\* leaves the index, the deadline, the is-playing flag and the voice table
\* unchanged.
C8_UpdateWhileNotPlaying ==
    [][(Update /\ ~is_playing)
          => /\ last'.ret = FALSE
             /\ last'.fired = -1
             /\ UNCHANGED <<current_event_index, next_event_time_ms, is_playing,
                            voices, dispatched>>]_vars

\* C8 witness: update() has been called on a session stopped in mid-song,
\* a voice still sounding.
C8_Witness ==
    /\ last.op = "update" /\ ~last.wasPlaying /\ ~last.ret
    /\ ~is_playing /\ ValidLoaded
    /\ 0 < current_event_index /\ current_event_index < current_event_count
    /\ \E i \in VoiceIndex : voices[i].isActive

\* C9: stop() while Playing clears the is-playing flag and nothing else
\* (index, deadline, song and voice table stay); stop() while not playing
\* changes nothing; afterwards update() returns false, and only start()
\* makes the session play again.
C9_StopOnlyClearsPlaying ==
    [][/\ Stop => /\ ~is_playing'
                  /\ UNCHANGED <<current_song_data_ptr, current_event_count,
                                 current_bpm, millis_per_tick, current_event_index,
                                 next_event_time_ms, voices, dispatched>>
       /\ (Update /\ ~is_playing) => (last'.ret = FALSE /\ ~is_playing')
       /\ (~is_playing /\ is_playing') => Start]_vars

\* C9 witness: stop() has acted in mid-song with a voice sounding.
C9_Witness ==
    /\ last.op = "stop" /\ last.wasPlaying /\ ~is_playing
    /\ 0 < current_event_index /\ current_event_index < current_event_count
    /\ \E i \in VoiceIndex : voices[i].isActive

\* The indices 0 .. n-1 in order.
FirstIndices(n) == [k \in 1 .. n |-> k - 1]

-----------------------------------------------------------------------------
(* Claims about the end of the song and the deadlines, checked under Spec *)

\* C11: the update() call that dispatches the last event (index count-1)
\* returns true and leaves the session playing with index = count; the
\* update() call right after it, the clock not having gone back since,
\* dispatches no event, clears is_playing and returns false.
C11_LastEventThenFinish ==
    /\ [][(Update /\ last'.fired # -1 /\ last'.fired = current_event_count - 1)
            => /\ last'.ret
               /\ is_playing'
               /\ current_event_index' = current_event_count]_vars
    /\ [][(Update /\ last.op = "update" /\ last.fired # -1
                  /\ last.fired = current_event_count - 1
                  /\ U32Ge(now, last.at))
            => /\ last'.fired = -1
               /\ dispatched' = dispatched
               /\ voices' = voices
               /\ ~is_playing'
               /\ ~last'.ret]_vars

\* C11 witness: song 1 has ended: its two events were dispatched and the
\* update() after the second one, later on the clock, returned false.
C11_Witness ==
    /\ last.op = "update" /\ last.wasPlaying /\ ~last.ret /\ last.fired = -1
    /\ ~is_playing
    /\ current_song_data_ptr = 1
    /\ dispatched = <<0, 1>>
    /\ current_event_index = current_event_count
    /\ ~U32Ge(next_event_time_ms, now)

\* The delta of event i of the loaded song in milliseconds, from the bytes
\* in flash and the tempo of the song.
DeltaMs(i) ==
    LET ticks == FlashData[current_song_data_ptr][i * 6 + 1] * 256
                   + FlashData[current_song_data_ptr][i * 6 + 2]
        bpm   == IF current_bpm <= 0 THEN 120 ELSE current_bpm
    IN  (2 * ticks * 60000 + bpm * 96) \div (2 * bpm * 96)

\* C12: when update() dispatches event i at the time t it read and another
\* event remains, the new deadline is t + round(delta of event i+1 *
\* millisPerTick), whatever the previous deadline was.  For song 1 (120 BPM,
\* 96 ticks per quarter note, deltas 96 and 48): start() at time now sets
\* the deadline to now + 500 ms, and the first event firing at t1 sets it to
\* t1 + 250 ms.
C12_DeadlineFromProcessingTime ==
    /\ [][(Update /\ last'.fired # -1 /\ current_event_index' < current_event_count)
            => next_event_time_ms' = U32Add(now, DeltaMs(current_event_index'))]_vars
    /\ [][(Start /\ is_playing' /\ ~is_playing /\ current_song_data_ptr = 1)
            => next_event_time_ms' = U32Add(now, 500)]_vars
    /\ [][(Update /\ last'.fired = 0 /\ current_song_data_ptr = 1)
            => next_event_time_ms' = U32Add(now, 250)]_vars

\* C12 witness: event 0 of song 1 fired at millis() = 2750 and the deadline
\* of event 1 is 3000 (start() ran at 2250 or earlier, so the deadline of
\* event 0 was 2750 or earlier).
C12_Witness ==
    /\ last.op = "update" /\ last.fired = 0
    /\ current_song_data_ptr = 1 /\ is_playing
    /\ last.at = <<0, 2750>>
    /\ next_event_time_ms = <<0, 3000>>

\* C17: in every reachable state of the playback session, across any
\* sequence of loadSong (successful or failed), start, stop and update
\* calls, 0 <= current event index <= event count of the loaded song.
C17_Original ==
    /\ 0 <= current_event_index
    /\ current_event_index <= current_event_count

-----------------------------------------------------------------------------
(* Claims about the audio task, checked under SpecAudio *)

\* The active voices among voices[0 .. n-1]: how many, and their outputs summed.
ActiveBelow(vs, n) == {j \in VoiceIndex : j < n /\ vs[j].isActive}

RECURSIVE OutputSum(_, _)
OutputSum(vs, S) ==
    IF S = {} THEN 0
    ELSE LET j == Min(S) IN vs[j].currentOutput + OutputSum(vs, S \ {j})

\* q is sum / count rounded to the nearest integer, halves away from zero.
IsRoundedMean(q, sum, count) ==
    LET r == sum - q * count
    IN  /\ 2 * r <= count /\ -2 * r <= count
        /\ (2 * r = count) => sum < 0
        /\ (-2 * r = count) => sum > 0

\* C13: each sample the render loop emits is a function of the active
\* voices only: 0 when no voice is active; otherwise the sum of currentOutput
\* over the active voices divided by their number, rounded and clamped to
\* [-32768, 32767].  Inactive voices add nothing to the sum or the divisor,
\* and with exactly one active voice the sample is that voice's output.
C13_SampleIsMeanOfActiveVoices ==
    /\ pcRender \in {"voice", "give"} =>
          /\ activeVoiceCount = Cardinality(ActiveBelow(voices, renderIndex))
          /\ summedSample_raw = OutputSum(voices, ActiveBelow(voices, renderIndex))
    /\ pcRender = "give" => renderIndex = 8
    /\ pcRender = "write" =>
          /\ activeVoiceCount = 0 => finalSample = 0
          /\ activeVoiceCount > 0 =>
                /\ IsRoundedMean(finalSample, summedSample_raw, activeVoiceCount)
                /\ finalSample >= -32768 /\ finalSample <= 32767
          /\ activeVoiceCount = 1 => finalSample = summedSample_raw

\* C13 witness: a sample is about to be written that was mixed from the one
\* active voice, while another voice is inactive with its output not zero.
C13_Witness ==
    /\ pcRender = "write" /\ activeVoiceCount = 1
    /\ finalSample = voices[0].currentOutput /\ finalSample # 0
    /\ voices[0].isActive
    /\ ~voices[1].isActive /\ voices[1].currentOutput # 0
    /\ calls = MaxAudioCalls /\ pcControl = "idle"

\* C14: the audio task never holds the voices mutex while it is inside the
\* blocking write of send_sample_to_i2s: whenever it is there the mutex is
\* free or held by the calling thread.
C14_NoMutexDuringWrite ==
    pcRender = "write" => voicesMutex \in {"free", "control"}

\* C14 witness: the audio task is in the write while the calling thread is
\* at work on the voice table.
C14_Witness ==
    /\ pcRender = "write"
    /\ pcControl = "body" /\ voicesMutex = "control"
    /\ request.op = "startNote"

\* Where each thread touches the voice table.
ControlInTable == pcControl \in {"body", "give"}
RenderInTable == pcRender \in {"voice", "give"}

\* C15: every read or write of the voice table, by startNote, stopNote and
\* the per-sample pass of the audio task, happens while the acting thread
\* holds the voices mutex, so the two threads are never inside their voice
\* table sections at the same time: the table changes under a pass only by
\* the pass itself, and under a startNote/stopNote only by that call.
C15_VoiceTableUnderMutex ==
    /\ [](/\ ControlInTable => voicesMutex = "control"
          /\ RenderInTable => voicesMutex = "render"
          /\ ~(ControlInTable /\ RenderInTable))
    /\ [][voices' # voices =>
            \/ pcControl = "body" /\ voicesMutex = "control" /\ ~RenderInTable
            \/ pcRender = "voice" /\ voicesMutex = "render" /\ ~ControlInTable]_vars

\* C15 witness: the audio task is in the middle of a pass over a table with
\* an active voice while a startNote call waits for the mutex.
C15_Witness ==
    /\ pcRender = "voice" /\ renderIndex = 4 /\ voicesMutex = "render"
    /\ pcControl = "take" /\ request.op = "startNote"
    /\ voices[0].isActive

\* C18: in one render iteration, for each active voice exactly one of two
\* things happens: if its countdown is 0, currentOutput is flipped between
\* +targetAmplitude and -targetAmplitude and the countdown is set to the
\* wavelength, which it equals when the iteration ends; otherwise the
\* countdown is decremented by 1 and currentOutput is unchanged.
C18_Original ==
    [][(RenderVoice /\ voices[renderIndex].isActive) =>
         LET before == voices[renderIndex]
             after  == voices'[renderIndex]
         IN  IF before.timeAtLevelRemaining = 0
             THEN /\ after.currentOutput =
                       (IF before.currentOutput = before.targetAmplitude
                        THEN -before.targetAmplitude ELSE before.targetAmplitude)
                  /\ after.timeAtLevelRemaining = before.wavelength
             ELSE /\ after.timeAtLevelRemaining = before.timeAtLevelRemaining - 1
                  /\ after.currentOutput = before.currentOutput]_vars

\* C18 as amended: in one render iteration, for each active voice: if its
\* countdown is 0, currentOutput is flipped between +targetAmplitude and
\* -targetAmplitude, the countdown is set to the wavelength and decremented
\* in the same iteration, so it is wavelength - 1 when the iteration ends;
\* otherwise the countdown is decremented by 1 and currentOutput is
\* unchanged.  Nothing else in the table changes.
C18_FlipAndCountDown ==
    [][RenderVoice =>
         LET before == voices[renderIndex]
             after  == voices'[renderIndex]
         IN  /\ \A j \in VoiceIndex \ {renderIndex} : voices'[j] = voices[j]
             /\ ~before.isActive => after = before
             /\ before.isActive =>
                   /\ IF before.timeAtLevelRemaining = 0
                      THEN /\ after.currentOutput =
                                (IF before.currentOutput = before.targetAmplitude
                                 THEN -before.targetAmplitude
                                 ELSE before.targetAmplitude)
                           /\ after.timeAtLevelRemaining = before.wavelength - 1
                      ELSE /\ after.timeAtLevelRemaining =
                                before.timeAtLevelRemaining - 1
                           /\ after.currentOutput = before.currentOutput
                   /\ after = [before EXCEPT
                                 !.currentOutput = after.currentOutput,
                                 !.timeAtLevelRemaining = after.timeAtLevelRemaining]]_vars

\* C18 witness: the pass has just flipped voice 0, of wavelength 2, to its
\* negative level and left its countdown at 1.
C18_Witness ==
    /\ pcRender = "voice" /\ renderIndex = 1
    /\ voices[0].isActive /\ voices[0].wavelength = 2
    /\ voices[0].currentOutput = -voices[0].targetAmplitude
    /\ voices[0].timeAtLevelRemaining = 1

\* C19: in every reachable state every active voice has wavelength >= 1,
\* targetAmplitude > 0, currentOutput equal to +targetAmplitude or
\* -targetAmplitude and countdown <= wavelength; and a render iteration on
\* an active voice either takes its countdown one step down towards 0 or,
\* at 0, flips its output: so the output flips after at most wavelength
\* iterations.
C19_ActiveVoiceWellFormed ==
    /\ [](\A j \in VoiceIndex : voices[j].isActive =>
             /\ voices[j].wavelength >= 1
             /\ voices[j].targetAmplitude > 0
             /\ voices[j].currentOutput \in {voices[j].targetAmplitude,
                                              -voices[j].targetAmplitude}
             /\ voices[j].timeAtLevelRemaining >= 0
             /\ voices[j].timeAtLevelRemaining <= voices[j].wavelength)
    /\ [][(RenderVoice /\ voices[renderIndex].isActive) =>
            \/ /\ voices[renderIndex].timeAtLevelRemaining > 0
               /\ voices'[renderIndex].timeAtLevelRemaining =
                    voices[renderIndex].timeAtLevelRemaining - 1
            \/ /\ voices[renderIndex].timeAtLevelRemaining = 0
               /\ voices'[renderIndex].currentOutput =
                    -voices[renderIndex].currentOutput]_vars

\* C19 witness: two voices are active, one of wavelength 1 and one of
\* wavelength 2 that has flipped to its negative level and counted down to 0.
C19_Witness ==
    /\ voices[0].isActive /\ voices[0].wavelength = 2
    /\ voices[0].currentOutput = -voices[0].targetAmplitude
    /\ voices[0].timeAtLevelRemaining = 0
    /\ voices[1].isActive /\ voices[1].wavelength = 1

-----------------------------------------------------------------------------
(* Claim about the progress of a playback, checked under SpecLive *)

\* C20: once start() has put a valid song into playing, if update() is
\* called again and again and the clock keeps advancing, and no stop or
\* loadSong comes in between, then eventually every event of the song has
\* been dispatched and an update() has returned false with the session no
\* longer playing.
C20_PlaybackFinishes ==
    (is_playing /\ ValidLoaded)
        ~> (/\ ~is_playing
            /\ last.op = "update" /\ last.wasPlaying /\ ~last.ret
            /\ dispatched = FirstIndices(current_event_count)
            /\ current_event_index = current_event_count)

\* C20 witness: song 2 has been played to its end: its three events were
\* dispatched and the update() after them returned false.
C20_Witness ==
    /\ current_song_data_ptr = 2 /\ current_event_count = 3
    /\ ~is_playing
    /\ last.op = "update" /\ last.wasPlaying /\ ~last.ret
    /\ dispatched = <<0, 1, 2>>

-----------------------------------------------------------------------------
(* Claims about the 32-bit clock and the reads from flash, checked under Spec *)

\* C21: no event is dispatched before its deadline: event i+1 is never
\* dispatched less than round(delta of event i+1 * millisPerTick)
\* milliseconds after event i was processed, and event 0 never less than its
\* delta after start(), also when millis() or the computed deadline wraps
\* around modulo 2^32.
C21_Original ==
    [][(Update /\ last'.fired # -1) => waited >= DeltaMs(current_event_index)]_vars

\* C22: the scheduler never reads the event stream out of bounds: in any
\* sequence of loadSong (successful or failed), start, stop and update
\* calls, every event record or delta the last call read lies at an index
\* below the event count of the session's data reference, which is not
\* null, and inside the array it points to: no read at index = count after
\* the last event and none through a reference a failed loadSong nulled
\* while playing.
C22_ReadsInBounds ==
    \A r \in last.reads :
        /\ r[1] # NULL
        /\ r[1] = current_song_data_ptr
        /\ r[2] >= 0 /\ r[2] < current_event_count
        /\ \A offset \in 0 .. 5 :
              r[1] \in DOMAIN FlashData
                /\ r[2] * 6 + offset + 1 \in DOMAIN FlashData[r[1]]

\* C22 witness: event 0 was read and dispatched, a failed loadSong then
\* nulled the data reference while the session played, and the update()
\* after it ended the playback without reading anything.
C22_Witness ==
    /\ dispatched = <<0>> /\ current_event_index = 1
    /\ current_song_data_ptr = NULL /\ current_event_count = 0
    /\ last.op = "update" /\ last.wasPlaying /\ ~last.ret
    /\ ~is_playing
    /\ last.reads = {}

-----------------------------------------------------------------------------
(* Claim about the progress of the two threads, checked under SpecAudioFair *)

\* C23: the voices mutex does not deadlock: on every path through
\* startNote, stopNote and a render pass the mutex taken is given back once
\* (a thread outside its voice table section does not hold it, and it is
\* given only by its holder), so under fair scheduling every startNote or
\* stopNote call eventually returns and every render pass eventually
\* reaches the audio write, also while the other thread keeps running or
\* the audio task stays blocked in the write.
C23_MutexGivenBack ==
    /\ [](/\ pcControl \in {"idle", "take"} => voicesMutex # "control"
          /\ pcRender \in {"take", "mix", "write"} => voicesMutex # "render")
    /\ [][(voicesMutex # "free" /\ voicesMutex' = "free") =>
            \/ voicesMutex = "control" /\ pcControl = "give" /\ pcControl' = "idle"
            \/ voicesMutex = "render" /\ pcRender = "give" /\ pcRender' = "mix"]_vars
    /\ (pcControl # "idle") ~> (pcControl = "idle")
    /\ (pcRender # "write") ~> (pcRender = "write")

\* C23 witness: a startNote call for a note that gets no voice has taken the
\* mutex while the audio task waits for it at the top of its loop.
C23_Witness ==
    /\ pcControl = "give" /\ voicesMutex = "control"
    /\ request.op = "startNote" /\ request.note = 0
    /\ pcRender = "take"

=============================================================================
